---------------------------- MODULE Spec2Model ----------------------------
(***************************************************************************)
(* Model of remote_leave_sync/models/leave_sync.py: the push of local      *)
(* hr.leave lifecycle events (create, write, unlink) to a remote database  *)
(* over OdooRPC, the single-active-configuration constraint and the        *)
(* employee / leave-type mappings.                                         *)
(*                                                                         *)
(* Every handler is one action.  The remote database and the network are   *)
(* the environment: each sync attempt of a handler gets a fault (none,     *)
(* host unreachable, login rejected, or the n-th remote call raising).     *)
(* An exception that escapes a handler rolls the local transaction back;   *)
(* what was already done on the remote stays done.                         *)
(***************************************************************************)
EXTENDS Integers, Sequences, FiniteSets, TLC

VARIABLES
    configs,      \* leave.sync.config table: id -> record
    employees,    \* hr.employee table: id -> remote_employee_id (0 = unset)
    archived,     \* hr.employee: the ids of the records with active = False
    leave_types,  \* hr.leave.type table: id -> remote_leave_type_id (0 = unset)
    leaves,       \* hr.leave table: id -> record
    leave_seq,    \* last id given to a local leave (ids are never reused)
    remote,       \* remote hr.leave table: a sequence, remote id = index
    now,          \* the clock read by fields.Datetime.now()
    last          \* history: what the last handler was asked and what it did

vars == <<configs, employees, archived, leave_types, leaves, leave_seq, remote, now, last>>

---------------------------------------------------------------------------
(* Bounds of the model *)

\* Spec: number of local leaves ever created, each request covering one.
MaxLeaves == 1
\* Spec: number of requests in one behaviour (the clock stops there).
MaxNow == 3
\* SpecBatch: number of records one create / write / unlink call covers, and
\* of local leaves ever created.
MaxBatch == 2
\* SpecBatch: number of requests in one behaviour.
MaxBatchNow == 2
\* Position of the last remote call of an attempt that the network can fail.
MaxCalls == 3
\* Number of leave.sync.config records.
MaxConfigs == 2
\* SpecMapping: number of employee records, and of leave type records.
MaxMapped == 3
\* SpecMapping: largest remote id an administrator enters.
MaxMapId == 2
\* Number of employees, and of leave types.
MaxPeople == 2
\* Largest day a write moves a date (or the day count) to.
MaxDay == 2

EmployeeIds == 1..MaxPeople
LeaveTypeIds == 1..MaxPeople

Min(S) ==
    CHOOSE x \in S : \A y \in S : x <= y

\* The ids of a set in ascending order (the order a recordset is iterated in).
RECURSIVE SortedSeq(_)
SortedSeq(S) ==
    IF S = {} THEN <<>> ELSE <<Min(S)>> \o SortedSeq(S \ {Min(S)})

\* vals applied over a record: the keys of vals replace the record's.
Merge(rec, vals) ==
    [f \in DOMAIN rec |-> IF f \in DOMAIN vals THEN vals[f] ELSE rec[f]]

---------------------------------------------------------------------------
(* Exceptions *)

NoExc == [cls |-> "none", kind |-> "", ref |-> 0]

Exc(cls, kind, ref) ==
    [cls |-> cls, kind |-> kind, ref |-> ref]

\* sync_error_message = False
NoMessage == [prefix |-> "", kind |-> "", ref |-> 0]

\* str(e) of an exception, behind an optional prefix
Message(prefix, e) ==
    [prefix |-> prefix, kind |-> e.kind, ref |-> e.ref]

\* Reading a field of a recordset (Odoo's ensure_one on field access): the value
\* for one record, the falsy value for none, ValueError for several.
FieldGet(table, ids, f) ==
    IF Cardinality(ids) > 1
    THEN [exc |-> Exc("ValueError", "Expected singleton", Cardinality(ids)), value |-> 0]
    ELSE IF ids = {}
    THEN [exc |-> NoExc, value |-> 0]
    ELSE [exc |-> NoExc, value |-> table[CHOOSE i \in ids : TRUE][f]]

---------------------------------------------------------------------------
(* leave.sync.config *)

ConfigDefaults ==
    [is_active |-> FALSE, sync_on_request |-> TRUE, sync_on_approve |-> TRUE,
     sync_on_refuse |-> TRUE, auto_approve_remote |-> FALSE]

\* The empty recordset of leave.sync.config: every field reads falsy.
NoConfig ==
    [id |-> 0, is_active |-> FALSE, sync_on_request |-> FALSE, sync_on_approve |-> FALSE,
     sync_on_refuse |-> FALSE, auto_approve_remote |-> FALSE]

ActiveIds(cfgs) ==
    {c \in DOMAIN cfgs : cfgs[c].is_active}

\* Mutant of GetActiveConfig: the search has no domain, the first
\* configuration is returned whether it is active or not.
GetActiveConfigAny(cfgs) ==
    IF DOMAIN cfgs = {} THEN NoConfig
    ELSE LET c == Min(DOMAIN cfgs) IN
         [id |-> c, is_active |-> cfgs[c].is_active,
          sync_on_request |-> cfgs[c].sync_on_request,
          sync_on_approve |-> cfgs[c].sync_on_approve,
          sync_on_refuse |-> cfgs[c].sync_on_refuse,
          auto_approve_remote |-> cfgs[c].auto_approve_remote]

\* HrLeave._get_active_config: search([('is_active', '=', True)], limit=1)
GetActiveConfig(cfgs) ==
    IF ActiveIds(cfgs) = {} THEN NoConfig
    ELSE LET c == Min(ActiveIds(cfgs)) IN
         [id |-> c, is_active |-> cfgs[c].is_active,
          sync_on_request |-> cfgs[c].sync_on_request,
          sync_on_approve |-> cfgs[c].sync_on_approve,
          sync_on_refuse |-> cfgs[c].sync_on_refuse,
          auto_approve_remote |-> cfgs[c].auto_approve_remote]

\* Mutant of CheckUniqueActive: the count of the other active configurations
\* is compared with 1.
CheckUniqueActiveOffByOne(cfgs, ids) ==
    LET mine == FieldGet(cfgs, ids, "is_active") IN
    IF mine.exc # NoExc THEN mine.exc
    ELSE IF ids # {} /\ mine.value = TRUE
            /\ Cardinality({c \in DOMAIN cfgs : cfgs[c].is_active /\ c \notin ids}) > 1
    THEN Exc("ValidationError", "Only one configuration can be active at a time.", 0)
    ELSE NoExc

\* LeaveSyncConfig._check_unique_active, run on the records `ids` of a create or
\* of a write that names is_active: the exception it raises, or NoExc.
CheckUniqueActive(cfgs, ids) ==
    LET mine == FieldGet(cfgs, ids, "is_active") IN
    IF mine.exc # NoExc THEN mine.exc
    ELSE IF ids # {} /\ mine.value = TRUE
            /\ Cardinality({c \in DOMAIN cfgs : cfgs[c].is_active /\ c \notin ids}) > 0
    THEN Exc("ValidationError", "Only one configuration can be active at a time.", 0)
    ELSE NoExc

---------------------------------------------------------------------------
(* The environment of one sync attempt *)

NoFault == [at |-> "none", n |-> 0]

Faults ==
    {NoFault, [at |-> "connect", n |-> 0], [at |-> "login", n |-> 0]}
        \cup {[at |-> "call", n |-> k] : k \in 1..MaxCalls}

\* One attempt for each record a handler covers, two for a single record (a
\* write can run a state sync and then an update sync on it).
MaxAttempts == IF MaxBatch > 2 THEN MaxBatch ELSE 2

Plans == [1..MaxAttempts -> Faults]

\* fields.Datetime.to_string: "YYYY-MM-DD HH:MM:SS", here as its six numbers.
DatetimeToString(d) ==
    <<2024, 1, d, 0, 0, 0>>

NoVals == [employee_id |-> 0, holiday_status_id |-> 0, date_from |-> <<>>,
           date_to |-> <<>>, number_of_days |-> 0]

Raised(ctx) ==
    ctx.exc # NoExc

Raise(ctx, e) ==
    [ctx EXCEPT !.exc = e]

\* One call on the remote hr.leave model: it is recorded, and it raises
\* odoorpc.error.RPCError when the attempt's fault is at its position.
Rpc(ctx, fault, op, rid, vals) ==
    LET n == Len(ctx.calls) + 1
        failing == fault.at = "call" /\ fault.n = n
    IN  [ctx EXCEPT
            !.calls = Append(@, [op |-> op, id |-> rid, ok |-> ~failing, vals |-> vals]),
            !.exc = IF failing THEN Exc("RPCError", "remote call raised", n) ELSE @]

RemoteExists(rem, rid) ==
    rid \in 1..Len(rem) /\ rem[rid].exists

---------------------------------------------------------------------------
(* hr.leave: the local table *)

LeaveStates == {"confirm", "validate", "refuse"}

\* super().write(vals) of hr.leave, which is all that HrLeave.write does under
\* the skip_sync context: the fields of vals are stored on the records.
WriteSkipSync(table, ids, vals) ==
    [i \in DOMAIN table |-> IF i \in ids THEN Merge(table[i], vals) ELSE table[i]]

\* The record super().create makes of one vals: the sync fields get their
\* defaults (sync_status 'not_synced', the others unset).
NewLeave(vals) ==
    [employee_id |-> vals.employee_id, holiday_status_id |-> vals.holiday_status_id,
     state |-> vals.state, date_from |-> vals.date_from, date_to |-> vals.date_to,
     number_of_days |-> vals.number_of_days,
     remote_leave_id |-> 0, sync_status |-> "not_synced",
     sync_error_message |-> NoMessage, last_sync_date |-> 0]

---------------------------------------------------------------------------
(* The remote operations of HrLeave *)

\* LeaveSyncConfig.get_odoo_connection: odoorpc.ODOO(...) and login, every
\* failure turned into a UserError.
GetOdooConnection(ctx, fault) ==
    IF fault.at = "login"
    THEN Raise([ctx EXCEPT !.connects = @ + 1],
               Exc("UserError", "Remote connection failed", 0))
    ELSE IF fault.at = "connect"
    THEN Raise([ctx EXCEPT !.connects = @ + 1],
               Exc("UserError", "Unable to connect to remote database", 0))
    ELSE [ctx EXCEPT !.connects = @ + 1, !.connected = TRUE]

\* The record the remote makes of a create.  made_for is bookkeeping, not a
\* field of the remote: the local leave whose sync made the call.
RemoteNew(vals, id) ==
    [exists |-> TRUE, made_for |-> id, employee_id |-> vals.employee_id,
     holiday_status_id |-> vals.holiday_status_id, date_from |-> vals.date_from,
     date_to |-> vals.date_to, number_of_days |-> vals.number_of_days,
     state |-> "confirm"]

\* Variant of RemoteCreateLeave with a fault: the auto-approve looks at the
\* configuration only, not at the state of the leave.
RemoteCreateLeaveApprovesAny(ctx, cfgs, id, remote_employee_id, remote_leave_type_id, fault) ==
    LET leave == ctx.leaves[id]
        remote_vals ==
            [employee_id |-> remote_employee_id,
             holiday_status_id |-> remote_leave_type_id,
             date_from |-> DatetimeToString(leave.date_from),
             date_to |-> DatetimeToString(leave.date_to),
             number_of_days |-> leave.number_of_days]
        remote_leave_id == Len(ctx.remote) + 1
        Approved(c3) ==
            IF Raised(c3) THEN c3
            ELSE [c3 EXCEPT !.remote[remote_leave_id].state = "validate"]
        AutoApprove(c2) ==
            IF GetActiveConfig(cfgs).auto_approve_remote
            THEN Approved(Rpc(c2, fault, "action_approve", remote_leave_id, NoVals))
            ELSE c2
        Created(c1) ==
            IF Raised(c1) THEN c1
            ELSE AutoApprove([c1 EXCEPT
                     !.remote = Append(@, RemoteNew(remote_vals, id)),
                     !.leaves = WriteSkipSync(@, {id},
                                    [remote_leave_id |-> remote_leave_id])])
    IN  Created(Rpc(ctx, fault, "create", remote_leave_id, remote_vals))

\* HrLeave._remote_create_leave
RemoteCreateLeave(ctx, cfgs, id, remote_employee_id, remote_leave_type_id, fault) ==
    LET leave == ctx.leaves[id]
        remote_vals ==
            [employee_id |-> remote_employee_id,
             holiday_status_id |-> remote_leave_type_id,
             date_from |-> DatetimeToString(leave.date_from),
             date_to |-> DatetimeToString(leave.date_to),
             number_of_days |-> leave.number_of_days]
        remote_leave_id == Len(ctx.remote) + 1
        \* remote_leave_record.action_approve() has been called
        Approved(c3) ==
            IF Raised(c3) THEN c3
            ELSE [c3 EXCEPT !.remote[remote_leave_id].state = "validate"]
        \* "Auto-approve if configured"
        AutoApprove(c2) ==
            IF GetActiveConfig(cfgs).auto_approve_remote /\ c2.leaves[id].state = "validate"
            THEN Approved(Rpc(c2, fault, "action_approve", remote_leave_id, NoVals))
            ELSE c2
        \* RemoteLeave.create(remote_vals) has been called: "Save remote ID locally"
        Created(c1) ==
            IF Raised(c1) THEN c1
            ELSE AutoApprove([c1 EXCEPT
                     !.remote = Append(@, RemoteNew(remote_vals, id)),
                     !.leaves = WriteSkipSync(@, {id},
                                    [remote_leave_id |-> remote_leave_id])])
    IN  Created(Rpc(ctx, fault, "create", remote_leave_id, remote_vals))

\* Variant of RemoteUpdateLeave with a fault: the remote record is written
\* without being looked up first.
RemoteUpdateLeaveBlind(ctx, id, fault) ==
    LET leave == ctx.leaves[id]
        rid == leave.remote_leave_id
        update_vals ==
            [date_from |-> DatetimeToString(leave.date_from),
             date_to |-> DatetimeToString(leave.date_to),
             number_of_days |-> leave.number_of_days]
        Written(c2) ==
            IF Raised(c2) THEN c2
            ELSE [c2 EXCEPT !.remote[rid] = Merge(@, update_vals)]
    IN  IF rid = 0 THEN ctx
        ELSE Written(Rpc(ctx, fault, "write", rid, Merge(NoVals, update_vals)))

\* HrLeave._remote_update_leave
RemoteUpdateLeave(ctx, id, fault) ==
    LET leave == ctx.leaves[id]
        rid == leave.remote_leave_id
        update_vals ==
            [date_from |-> DatetimeToString(leave.date_from),
             date_to |-> DatetimeToString(leave.date_to),
             number_of_days |-> leave.number_of_days]
        \* remote_leave.write(update_vals) has been called
        Written(c2) ==
            IF Raised(c2) THEN c2
            ELSE [c2 EXCEPT !.remote[rid] = Merge(@, update_vals)]
        \* remote_leave.exists() has been called
        Browsed(c1) ==
            IF Raised(c1) THEN c1
            ELSE IF ~RemoteExists(c1.remote, rid)
            THEN Raise(c1, Exc("Exception", "Remote leave not found", rid))
            ELSE Written(Rpc(c1, fault, "write", rid, Merge(NoVals, update_vals)))
    IN  IF rid = 0 THEN ctx
        ELSE Browsed(Rpc(ctx, fault, "exists", rid, NoVals))

\* HrLeave._remote_approve_leave
RemoteApproveLeave(ctx, id, fault) ==
    LET rid == ctx.leaves[id].remote_leave_id
        \* remote_leave.action_approve() has been called
        Approved(c2) ==
            IF Raised(c2) THEN c2
            ELSE [c2 EXCEPT !.remote[rid].state = "validate"]
        \* remote_leave.exists() has been called: "Check current state"
        Browsed(c1) ==
            IF Raised(c1) THEN c1
            ELSE IF ~RemoteExists(c1.remote, rid)
            THEN Raise(c1, Exc("Exception", "Remote leave not found", rid))
            ELSE IF c1.remote[rid].state = "validate" THEN c1
            ELSE Approved(Rpc(c1, fault, "action_approve", rid, NoVals))
    IN  IF rid = 0
        THEN Raise(ctx, Exc("Exception",
                            "Cannot approve leave on remote: missing remote_leave_id", id))
        ELSE Browsed(Rpc(ctx, fault, "exists", rid, NoVals))

\* Mutant of RemoteRefuseLeave: the remote state is not looked at, action_refuse
\* is called on every refuse sync.
RemoteRefuseLeaveAlways(ctx, id, fault) ==
    LET rid == ctx.leaves[id].remote_leave_id
        Refused(c2) ==
            IF Raised(c2) THEN c2
            ELSE [c2 EXCEPT !.remote[rid].state = "refuse"]
        Browsed(c1) ==
            IF Raised(c1) THEN c1
            ELSE IF ~RemoteExists(c1.remote, rid)
            THEN Raise(c1, Exc("Exception", "Remote leave not found", rid))
            ELSE Refused(Rpc(c1, fault, "action_refuse", rid, NoVals))
    IN  IF rid = 0
        THEN Raise(ctx, Exc("Exception",
                            "Cannot refuse leave on remote: missing remote_leave_id", id))
        ELSE Browsed(Rpc(ctx, fault, "exists", rid, NoVals))

\* HrLeave._remote_refuse_leave
RemoteRefuseLeave(ctx, id, fault) ==
    LET rid == ctx.leaves[id].remote_leave_id
        \* remote_leave.action_refuse() has been called
        Refused(c2) ==
            IF Raised(c2) THEN c2
            ELSE [c2 EXCEPT !.remote[rid].state = "refuse"]
        \* remote_leave.exists() has been called: "Check current state"
        Browsed(c1) ==
            IF Raised(c1) THEN c1
            ELSE IF ~RemoteExists(c1.remote, rid)
            THEN Raise(c1, Exc("Exception", "Remote leave not found", rid))
            ELSE IF c1.remote[rid].state = "refuse" THEN c1
            ELSE Refused(Rpc(c1, fault, "action_refuse", rid, NoVals))
    IN  IF rid = 0
        THEN Raise(ctx, Exc("Exception",
                            "Cannot refuse leave on remote: missing remote_leave_id", id))
        ELSE Browsed(Rpc(ctx, fault, "exists", rid, NoVals))

\* Variant of RemoteDeleteLeave with a fault: a missing remote record raises,
\* as it does in the update, approve and refuse operations.
RemoteDeleteLeaveStrict(ctx, id, fault) ==
    LET rid == ctx.leaves[id].remote_leave_id
        Unlinked(c2) ==
            IF Raised(c2) THEN c2
            ELSE [c2 EXCEPT !.remote[rid].exists = FALSE]
        Browsed(c1) ==
            IF Raised(c1) THEN c1
            ELSE IF RemoteExists(c1.remote, rid)
            THEN Unlinked(Rpc(c1, fault, "unlink", rid, NoVals))
            ELSE Raise(c1, Exc("Exception", "Remote leave not found", rid))
    IN  IF rid = 0 THEN ctx
        ELSE Browsed(Rpc(ctx, fault, "exists", rid, NoVals))

\* Variant of RemoteDeleteLeave with a fault: the test for an empty
\* remote_leave_id is left out, so the remote is asked about id 0.
RemoteDeleteLeaveNoGuard(ctx, id, fault) ==
    LET rid == ctx.leaves[id].remote_leave_id
        Unlinked(c2) ==
            IF Raised(c2) THEN c2
            ELSE [c2 EXCEPT !.remote[rid].exists = FALSE]
        Browsed(c1) ==
            IF Raised(c1) THEN c1
            ELSE IF RemoteExists(c1.remote, rid)
            THEN Unlinked(Rpc(c1, fault, "unlink", rid, NoVals))
            ELSE c1
    IN  Browsed(Rpc(ctx, fault, "exists", rid, NoVals))

\* HrLeave._remote_delete_leave
RemoteDeleteLeave(ctx, id, fault) ==
    LET rid == ctx.leaves[id].remote_leave_id
        \* remote_leave.unlink() has been called
        Unlinked(c2) ==
            IF Raised(c2) THEN c2
            ELSE [c2 EXCEPT !.remote[rid].exists = FALSE]
        \* remote_leave.exists() has been called
        Browsed(c1) ==
            IF Raised(c1) THEN c1
            ELSE IF RemoteExists(c1.remote, rid)
            THEN Unlinked(Rpc(c1, fault, "unlink", rid, NoVals))
            ELSE c1
    IN  IF rid = 0 THEN ctx
        ELSE Browsed(Rpc(ctx, fault, "exists", rid, NoVals))

---------------------------------------------------------------------------
(* One sync attempt: HrLeave._sync_single_leave *)

\* Variant of MarkSyncing with a fault: the attempt starts without writing
\* sync_status.
MarkSyncingSkipped(w, id) ==
    [leaves |-> w.leaves,
     remote |-> w.remote, calls |-> <<>>, exc |-> NoExc, connects |-> 0,
     connected |-> FALSE, trail |-> <<>>]

\* self.with_context(skip_sync=True).write({'sync_status': 'syncing'}), at the
\* head of the try block.
MarkSyncing(w, id) ==
    [leaves |-> WriteSkipSync(w.leaves, {id}, [sync_status |-> "syncing"]),
     remote |-> w.remote, calls |-> <<>>, exc |-> NoExc, connects |-> 0,
     connected |-> FALSE, trail |-> <<"syncing">>]

\* Mutant of GetMappings: the leave type's remote id is not checked.
GetMappingsEmployeeOnly(ctx, db, id) ==
    LET leave == ctx.leaves[id]
        remote_employee_id == db.employees[leave.employee_id]
    IN  IF remote_employee_id = 0
        THEN Raise(ctx, Exc("Exception", "Employee is missing remote_employee_id",
                            leave.employee_id))
        ELSE ctx

\* The two mapping lookups, each raising when the id is unset.
GetMappings(ctx, db, id) ==
    LET leave == ctx.leaves[id]
        remote_employee_id == db.employees[leave.employee_id]
        remote_leave_type_id == db.leave_types[leave.holiday_status_id]
    IN  IF remote_employee_id = 0
        THEN Raise(ctx, Exc("Exception", "Employee is missing remote_employee_id",
                            leave.employee_id))
        ELSE IF remote_leave_type_id = 0
        THEN Raise(ctx, Exc("Exception", "Leave type is missing remote_leave_type_id",
                            leave.holiday_status_id))
        ELSE ctx

\* Mutant of AutoCreate: no remote record is made ahead of the operation.
AutoCreateNever(ctx, db, id, sync_type, fault) ==
    ctx

\* "Auto-create if missing remote_leave_id for approve/refuse/update"
AutoCreate(ctx, db, id, sync_type, fault) ==
    IF sync_type \in {"approve", "refuse", "update"} /\ ctx.leaves[id].remote_leave_id = 0
    THEN RemoteCreateLeave(ctx, db.configs, id,
                           db.employees[ctx.leaves[id].employee_id],
                           db.leave_types[ctx.leaves[id].holiday_status_id], fault)
    ELSE ctx

\* Variant of PerformSync with a fault: the create is handed the local ids of
\* the employee and the leave type instead of the mapped remote ids.
PerformSyncLocalIds(ctx, db, id, sync_type, fault) ==
    IF sync_type = "create"
    THEN RemoteCreateLeave(ctx, db.configs, id,
                           ctx.leaves[id].employee_id,
                           ctx.leaves[id].holiday_status_id, fault)
    ELSE IF sync_type = "update" THEN RemoteUpdateLeave(ctx, id, fault)
    ELSE IF sync_type = "approve" THEN RemoteApproveLeave(ctx, id, fault)
    ELSE IF sync_type = "refuse" THEN RemoteRefuseLeave(ctx, id, fault)
    ELSE IF sync_type = "delete" THEN RemoteDeleteLeave(ctx, id, fault)
    ELSE ctx

\* "Perform sync operation": the dispatch on sync_type.
PerformSync(ctx, db, id, sync_type, fault) ==
    IF sync_type = "create"
    THEN RemoteCreateLeave(ctx, db.configs, id,
                           db.employees[ctx.leaves[id].employee_id],
                           db.leave_types[ctx.leaves[id].holiday_status_id], fault)
    ELSE IF sync_type = "update" THEN RemoteUpdateLeave(ctx, id, fault)
    ELSE IF sync_type = "approve" THEN RemoteApproveLeave(ctx, id, fault)
    ELSE IF sync_type = "refuse" THEN RemoteRefuseLeave(ctx, id, fault)
    ELSE IF sync_type = "delete" THEN RemoteDeleteLeave(ctx, id, fault)
    ELSE ctx

\* Mutant of MarkSynced: the stored error text of an earlier failure is kept.
MarkSyncedKeepsError(ctx, id, time) ==
    [ctx EXCEPT
        !.leaves = WriteSkipSync(@, {id},
                       [sync_status |-> "synced", last_sync_date |-> time]),
        !.trail = Append(@, "synced")]

\* "Mark as synced"
MarkSynced(ctx, id, time) ==
    [ctx EXCEPT
        !.leaves = WriteSkipSync(@, {id},
                       [sync_status |-> "synced", sync_error_message |-> NoMessage,
                        last_sync_date |-> time]),
        !.trail = Append(@, "synced")]

\* Mutant of MarkFailed: only odoorpc's RPCError is handled, any other
\* exception leaves the record as the try block left it.
MarkFailedRpcOnly(ctx, id) ==
    IF ctx.exc.cls = "RPCError"
    THEN [ctx EXCEPT
            !.leaves = WriteSkipSync(@, {id},
                           [sync_status |-> "failed",
                            sync_error_message |-> Message("RPC Error: ", ctx.exc)]),
            !.trail = Append(@, "failed")]
    ELSE ctx

\* Variant of MarkFailed with a fault: the except clauses also reset
\* remote_leave_id.
MarkFailedClearsRemoteId(ctx, id) ==
    [ctx EXCEPT
        !.leaves = WriteSkipSync(@, {id},
                       [sync_status |-> "failed",
                        remote_leave_id |-> 0,
                        sync_error_message |->
                            IF ctx.exc.cls = "RPCError"
                            THEN Message("RPC Error: ", ctx.exc)
                            ELSE Message("", ctx.exc)]),
        !.trail = Append(@, "failed")]

\* The two except clauses: RPCError is stored behind "RPC Error: ", any other
\* exception as its own text.
MarkFailed(ctx, id) ==
    [ctx EXCEPT
        !.leaves = WriteSkipSync(@, {id},
                       [sync_status |-> "failed",
                        sync_error_message |->
                            IF ctx.exc.cls = "RPCError"
                            THEN Message("RPC Error: ", ctx.exc)
                            ELSE Message("", ctx.exc)]),
        !.trail = Append(@, "failed")]

\* The body of the try block after the status write: connect, get the
\* mappings, auto-create, perform; each statement is skipped once an exception
\* is on its way to the except clauses.
TryBody(ctx, db, id, sync_type, fault) ==
    LET \* "Perform sync operation", after the auto-create
        Perform(c3) ==
            IF Raised(c3) THEN c3 ELSE PerformSync(c3, db, id, sync_type, fault)
        \* "Auto-create if missing remote_leave_id", after the mappings
        Create(c2) ==
            IF Raised(c2) THEN c2 ELSE Perform(AutoCreate(c2, db, id, sync_type, fault))
        \* "Get mappings", after the connection
        Mappings(c1) ==
            IF Raised(c1) THEN c1 ELSE Create(GetMappings(c1, db, id))
    IN  Mappings(GetOdooConnection(ctx, fault))

\* Variant of SyncSingleLeave with a fault: the except clauses are missing,
\* an attempt that raised is left as the try block left it.
SyncSingleLeaveNoExcept(w, db, id, sync_type, fault) ==
    LET Record(c5) ==
            [w EXCEPT
                !.leaves = c5.leaves,
                !.remote = c5.remote,
                !.attempts = Append(@,
                    [leave |-> id, sync_type |-> sync_type,
                     before |-> w.leaves[id], after |-> c5.leaves[id],
                     pre_remote |-> w.remote,
                     calls |-> c5.calls, exc |-> c5.exc, connects |-> c5.connects,
                     connected |-> c5.connected, trail |-> c5.trail])]
        Settle(c4) ==
            Record(IF Raised(c4) THEN c4 ELSE MarkSynced(c4, id, w.now))
    IN  Settle(TryBody(MarkSyncing(w, id), db, id, sync_type, fault))

\* HrLeave._sync_single_leave.  w is the handler's world so far: the local
\* and remote tables, the clock, and the attempts made (history).
SyncSingleLeave(w, db, id, sync_type, fault) ==
    LET \* The attempt is over: it joins the history.
        Record(c5) ==
            [w EXCEPT
                !.leaves = c5.leaves,
                !.remote = c5.remote,
                !.attempts = Append(@,
                    [leave |-> id, sync_type |-> sync_type,
                     before |-> w.leaves[id], after |-> c5.leaves[id],
                     pre_remote |-> w.remote,
                     calls |-> c5.calls, exc |-> c5.exc, connects |-> c5.connects,
                     connected |-> c5.connected, trail |-> c5.trail])]
        \* The end of the try block, or the except clauses.
        Settle(c4) ==
            Record(IF Raised(c4) THEN MarkFailed(c4, id) ELSE MarkSynced(c4, id, w.now))
    IN  Settle(TryBody(MarkSyncing(w, id), db, id, sync_type, fault))

\* "for leave in self: leave._sync_single_leave(config, sync_type)", each
\* attempt taking the next fault of the plan.
RECURSIVE SyncEach(_, _, _, _, _)
SyncEach(w, db, order, sync_type, plan) ==
    IF order = <<>> THEN w
    ELSE SyncEach(SyncSingleLeave(w, db, Head(order), sync_type,
                                  plan[Len(w.attempts) + 1]),
                  db, Tail(order), sync_type, plan)

\* HrLeave._sync_leave_to_remote
SyncLeaveToRemote(w, db, ids, sync_type, plan) ==
    IF GetActiveConfig(db.configs) = NoConfig THEN w
    ELSE SyncEach(w, db, SortedSeq(ids), sync_type, plan)

---------------------------------------------------------------------------
(* The lifecycle handlers of HrLeave *)

\* HrLeave.create, after super().create(vals_list) has stored the records.
CreateHook(w, db, ids, skip, plan) ==
    IF skip THEN w
    ELSE LET config == GetActiveConfig(db.configs) IN
         IF config # NoConfig /\ config.sync_on_request
         THEN SyncLeaveToRemote(w, db, ids, "create", plan)
         ELSE w

\* Mutant of WriteStateSync: the refuse branch tests the approve toggle.
WriteStateSyncOneToggle(w, db, config, ids, vals, plan) ==
    IF "state" \in DOMAIN vals
    THEN IF vals.state = "validate" /\ config.sync_on_approve
         THEN SyncLeaveToRemote(w, db, ids, "approve", plan)
         ELSE IF vals.state = "refuse" /\ config.sync_on_approve
         THEN SyncLeaveToRemote(w, db, ids, "refuse", plan)
         ELSE w
    ELSE w

\* "Sync on state changes"
WriteStateSync(w, db, config, ids, vals, plan) ==
    IF "state" \in DOMAIN vals
    THEN IF vals.state = "validate" /\ config.sync_on_approve
         THEN SyncLeaveToRemote(w, db, ids, "approve", plan)
         ELSE IF vals.state = "refuse" /\ config.sync_on_refuse
         THEN SyncLeaveToRemote(w, db, ids, "refuse", plan)
         ELSE w
    ELSE w

\* Mutant of WriteDateSync: the update sync does not depend on remote_leave_id.
WriteDateSyncAlways(w, db, ids, vals, plan) ==
    IF DOMAIN vals \cap {"date_from", "date_to", "number_of_days"} # {}
    THEN SyncLeaveToRemote(w, db, ids, "update", plan)
    ELSE w

\* "Sync on date/duration changes": self.remote_leave_id is read on the whole
\* recordset of the write.
WriteDateSync(w, db, ids, vals, plan) ==
    IF DOMAIN vals \cap {"date_from", "date_to", "number_of_days"} # {}
    THEN LET rid == FieldGet(w.leaves, ids, "remote_leave_id") IN
         IF rid.exc # NoExc THEN [w EXCEPT !.exc = rid.exc]
         ELSE IF rid.value # 0
         THEN SyncLeaveToRemote(w, db, ids, "update", plan)
         ELSE w
    ELSE w

\* Variant of Write with a fault: the skip_sync flag of the context is not
\* looked at.
WriteIgnoresSkip(w, db, ids, vals, skip, plan) ==
    LET w1 == [w EXCEPT !.leaves = WriteSkipSync(@, ids, vals)] IN
    LET config == GetActiveConfig(db.configs) IN
    IF config = NoConfig THEN w1
    ELSE WriteDateSync(WriteStateSync(w1, db, config, ids, vals, plan),
                       db, ids, vals, plan)

\* HrLeave.write
Write(w, db, ids, vals, skip, plan) ==
    LET w1 == [w EXCEPT !.leaves = WriteSkipSync(@, ids, vals)] IN
    IF skip THEN w1
    ELSE LET config == GetActiveConfig(db.configs) IN
         IF config = NoConfig THEN w1
         ELSE WriteDateSync(WriteStateSync(w1, db, config, ids, vals, plan),
                            db, ids, vals, plan)

\* HrLeave.unlink, before super().unlink() removes the records.
UnlinkHook(w, db, ids, skip, plan) ==
    IF skip THEN w
    ELSE IF GetActiveConfig(db.configs) # NoConfig
    THEN SyncLeaveToRemote(w, db, ids, "delete", plan)
    ELSE w

---------------------------------------------------------------------------
(* Actions: the leave lifecycle *)

\* What the callers of create pass: the employee, the leave type and the
\* state vary, the dates start at day 1.
CreateVals ==
    {[employee_id |-> e, holiday_status_id |-> t, state |-> s,
      date_from |-> 1, date_to |-> 1, number_of_days |-> 1] :
        e \in EmployeeIds, t \in LeaveTypeIds, s \in {"confirm", "validate"}}

\* The lists create is called with: one vals, or several that differ in the
\* employee only.
CreateLists ==
    UNION {{l \in [1..n -> CreateVals] :
              \A i \in 1..n : Merge(l[i], [employee_id |-> 0])
                                = Merge(l[1], [employee_id |-> 0])} :
           n \in 1..MaxBatch}

\* What the callers of write pass: a state, a date or day count, or both.
WriteVals ==
    {[state |-> s] : s \in LeaveStates}
        \cup {[date_from |-> d] : d \in 2..MaxDay}
        \cup {[date_to |-> d] : d \in 2..MaxDay}
        \cup {[number_of_days |-> d] : d \in 2..MaxDay}
        \cup {[state |-> s, date_from |-> d] : s \in {"validate", "refuse"}, d \in 2..MaxDay}

Batches(S) ==
    {ids \in SUBSET S : ids # {} /\ Cardinality(ids) <= MaxBatch}

NoPlan == [i \in 1..MaxAttempts |-> NoFault]

\* The plans of a handler that makes n attempts when nothing fails (a fault
\* never adds an attempt): faults for these attempts only.
PlansUpTo(n) ==
    {p \in Plans : \A i \in 1..MaxAttempts : i > n => p[i] = NoFault}

\* A fault of the plan that no call of its attempt runs into is no fault at
\* all: such plans repeat the behaviour of the plan without it, and are left out.
FaultHit(a, f) ==
    \/ f.at \in {"connect", "login"} /\ a.exc.cls = "UserError" /\ ~a.connected
    \/ f.at = "call" /\ a.exc = Exc("RPCError", "remote call raised", f.n)

PlanUsed(plan, attempts) ==
    \A i \in 1..MaxAttempts :
        plan[i] # NoFault => i <= Len(attempts) /\ FaultHit(attempts[i], plan[i])

Db == [configs |-> configs, employees |-> employees, leave_types |-> leave_types]

World == [leaves |-> leaves, remote |-> remote, now |-> now,
          attempts |-> <<>>, exc |-> NoExc]

NoHistory ==
    [op |-> "none", ids |-> {}, vals |-> <<>>, skip |-> FALSE, exc |-> NoExc,
     attempts |-> <<>>, pre |-> <<>>, pre_remote |-> <<>>, time |-> 0]

History(op, ids, vals, skip, w) ==
    [op |-> op, ids |-> ids, vals |-> vals, skip |-> skip, exc |-> w.exc,
     attempts |-> w.attempts, pre |-> leaves, pre_remote |-> remote, time |-> now]

\* No request is being served (the server handles one request at a time).
Idle == last.op = "none"

\* The end of a handler: an exception that escaped it rolls the local
\* transaction back, the remote keeps what the calls did to it.
Commit(op, ids, vals, skip, w, done) ==
    /\ leaves' = IF w.exc # NoExc THEN leaves ELSE done
    /\ remote' = w.remote
    /\ now' = now + 1
    /\ last' = History(op, ids, vals, skip, w)

\* The ids super().create gives to the records of vals_list
NewIds(vals_list) ==
    (leave_seq + 1)..(leave_seq + Len(vals_list))

CreateStored(vals_list) ==
    [i \in DOMAIN leaves \cup NewIds(vals_list) |->
        IF i \in NewIds(vals_list) THEN NewLeave(vals_list[i - leave_seq])
        ELSE leaves[i]]

\* HrLeave.create(vals_list), with or without skip_sync in the context
LeaveCreate(vals_list, skip, plan) ==
    LET ids == NewIds(vals_list)
        Return(w) ==
            /\ PlanUsed(plan, w.attempts)
            /\ Commit("create", ids, vals_list, skip, w, w.leaves)
            /\ leave_seq' = IF w.exc # NoExc THEN leave_seq
                            ELSE leave_seq + Len(vals_list)
    IN  /\ Idle
        /\ Return(CreateHook([World EXCEPT !.leaves = CreateStored(vals_list)],
                             Db, ids, skip, plan))
        /\ UNCHANGED <<configs, employees, archived, leave_types>>

\* HrLeave.write(vals) on the records ids
LeaveWrite(ids, vals, skip, plan) ==
    LET Return(w) ==
            /\ PlanUsed(plan, w.attempts)
            /\ Commit("write", ids, vals, skip, w, w.leaves)
    IN  /\ Idle
        /\ Return(Write(World, Db, ids, vals, skip, plan))
        /\ UNCHANGED <<configs, employees, archived, leave_types, leave_seq>>

\* HrLeave.unlink() on the records ids
LeaveUnlink(ids, skip, plan) ==
    LET \* super().unlink()
        Return(w) ==
            /\ PlanUsed(plan, w.attempts)
            /\ Commit("unlink", ids, <<>>, skip, w,
                      [i \in DOMAIN w.leaves \ ids |-> w.leaves[i]])
    IN  /\ Idle
        /\ Return(UnlinkHook(World, Db, ids, skip, plan))
        /\ UNCHANGED <<configs, employees, archived, leave_types, leave_seq>>

\* The request is over: its history is dropped.
RequestEnd ==
    /\ ~Idle
    /\ last' = NoHistory
    /\ UNCHANGED <<configs, employees, archived, leave_types, leaves, leave_seq, remote, now>>

\* Outside the program: somebody deletes a leave on the remote database.
RemoteLost(rid) ==
    /\ Idle
    /\ remote[rid].exists
    /\ remote' = [remote EXCEPT ![rid].exists = FALSE]
    /\ UNCHANGED <<configs, employees, archived, leave_types, leaves, leave_seq, now, last>>

---------------------------------------------------------------------------
(* The database after the administrator's setup, and the requests on
   several leaves at once *)

\* Toggle settings of the one configuration: the defaults, or one toggle
\* away from them; an inactive configuration keeps the defaults.
ConfigSetups ==
    {c \in [is_active : BOOLEAN, sync_on_request : BOOLEAN, sync_on_approve : BOOLEAN,
            sync_on_refuse : BOOLEAN, auto_approve_remote : BOOLEAN] :
        /\ Cardinality({f \in DOMAIN c \ {"is_active"} : c[f] # ConfigDefaults[f]}) <= 1
        /\ ~c.is_active => Merge(c, [is_active |-> FALSE]) = ConfigDefaults}

\* Employee 1 and leave type 1 are mapped (to remote ids 1 and 2), the others not.
Init ==
    /\ configs \in {(1 :> c) : c \in ConfigSetups}
    /\ employees = [e \in EmployeeIds |-> IF e = 1 THEN 1 ELSE 0]
    /\ archived = {}
    /\ leave_types = [t \in LeaveTypeIds |-> IF t = 1 THEN 2 ELSE 0]
    /\ leaves = <<>>
    /\ leave_seq = 0
    /\ remote = <<>>
    /\ now = 1
    /\ last = NoHistory

\* The requests on leaves, until the clock reaches `deadline`: create with the
\* lists of `lists`, write and unlink on the recordsets of `sets`, each under
\* every plan of faults.
CreateRequest(lists, deadline) ==
    /\ now <= deadline
    /\ \E skip \in BOOLEAN, vals_list \in lists :
          \E plan \in PlansUpTo(Len(CreateHook([World EXCEPT !.leaves = CreateStored(vals_list)],
                                    Db, NewIds(vals_list), skip, NoPlan).attempts)) :
             LeaveCreate(vals_list, skip, plan)

WriteRequest(sets, deadline) ==
    /\ now <= deadline
    /\ \E skip \in BOOLEAN, ids \in sets, vals \in WriteVals :
          \E plan \in PlansUpTo(Len(Write(World, Db, ids, vals, skip, NoPlan).attempts)) :
             LeaveWrite(ids, vals, skip, plan)

UnlinkRequest(sets, deadline) ==
    /\ now <= deadline
    /\ \E skip \in BOOLEAN, ids \in sets :
          \E plan \in PlansUpTo(Len(UnlinkHook(World, Db, ids, skip, NoPlan).attempts)) :
             LeaveUnlink(ids, skip, plan)

\* Requests that cover up to MaxBatch records.
NextBatch ==
    \/ CreateRequest({l \in CreateLists : leave_seq + Len(l) <= MaxBatch}, MaxBatchNow)
    \/ WriteRequest(Batches(DOMAIN leaves), MaxBatchNow)
    \/ UnlinkRequest(Batches(DOMAIN leaves), MaxBatchNow)
    \/ RequestEnd
    \/ \E rid \in DOMAIN remote : RemoteLost(rid)

SpecBatch == Init /\ [][NextBatch]_vars

\* The database with MaxBatch leaves that were created while nothing was
\* synced (under skip_sync, or before a configuration was made active): they
\* have the defaults of the sync fields, and the remote has no record.  The
\* leaves are requests (state confirm) of the mapped leave type, the first
\* one of the mapped employee, and the configuration syncs every event.
InitRetry ==
    /\ configs \in {(1 :> c) : c \in {s \in ConfigSetups :
                                          /\ s.is_active
                                          /\ s.sync_on_approve
                                          /\ s.sync_on_refuse
                                          /\ s.sync_on_request}}
    /\ employees = [e \in EmployeeIds |-> IF e = 1 THEN 1 ELSE 0]
    /\ archived = {}
    /\ leave_types = [t \in LeaveTypeIds |-> IF t = 1 THEN 2 ELSE 0]
    /\ leaves \in {[i \in 1..MaxBatch |-> NewLeave(l[i])] :
                      l \in {c \in CreateLists :
                                /\ Len(c) = MaxBatch
                                /\ c[1].employee_id = 1
                                /\ c[1].holiday_status_id = 1
                                /\ c[1].state = "confirm"}}
    /\ leave_seq = MaxBatch
    /\ remote = <<>>
    /\ now = 1
    /\ last = NoHistory

\* Writes that cover up to MaxBatch of these leaves, one after another.
NextRetry ==
    \/ WriteRequest(Batches(DOMAIN leaves), MaxBatchNow)
    \/ RequestEnd
    \/ \E rid \in DOMAIN remote : RemoteLost(rid)

SpecRetry == InitRetry /\ [][NextRetry]_vars

---------------------------------------------------------------------------
(* Actions: the administrator's edits of leave.sync.config *)

ConfigVals ==
    [is_active : BOOLEAN, sync_on_request : BOOLEAN, sync_on_approve : BOOLEAN,
     sync_on_refuse : BOOLEAN, auto_approve_remote : BOOLEAN]

\* create is called with one vals, or with several that keep the default toggles.
ConfigLists ==
    {<<c>> : c \in ConfigVals}
        \cup UNION {[1..n -> {c \in ConfigVals : Merge(c, [is_active |-> FALSE]) = ConfigDefaults}] :
                    n \in 2..MaxConfigs}

\* write is called with one field, or with is_active and a toggle.
ConfigWriteVals ==
    {[is_active |-> b] : b \in BOOLEAN}
        \cup {[sync_on_request |-> b] : b \in BOOLEAN}
        \cup {[sync_on_approve |-> b] : b \in BOOLEAN}
        \cup {[sync_on_refuse |-> b] : b \in BOOLEAN}
        \cup {[auto_approve_remote |-> b] : b \in BOOLEAN}
        \cup {[is_active |-> b, auto_approve_remote |-> TRUE] : b \in BOOLEAN}

ConfigHistory(op, ids, vals, e) ==
    [op |-> op, ids |-> ids, vals |-> vals, skip |-> FALSE, exc |-> e,
     attempts |-> <<>>, pre |-> configs, pre_remote |-> remote, time |-> now]

\* LeaveSyncConfig.create(vals_list): the records are stored, then the
\* constraint of is_active runs on them; an exception rolls the create back.
ConfigCreate(vals_list) ==
    /\ Idle
    /\ Cardinality(DOMAIN configs) + Len(vals_list) <= MaxConfigs
    /\ LET n == Cardinality(DOMAIN configs)
           ids == (n + 1)..(n + Len(vals_list))
           stored == [c \in DOMAIN configs \cup ids |->
                        IF c \in ids THEN vals_list[c - n] ELSE configs[c]]
           e == CheckUniqueActive(stored, ids)
       IN  /\ configs' = IF e # NoExc THEN configs ELSE stored
           /\ last' = ConfigHistory("config_create", ids, vals_list, e)
    /\ now' = now + 1
    /\ UNCHANGED <<employees, archived, leave_types, leaves, leave_seq, remote>>

\* LeaveSyncConfig.write(vals) on the records ids: the constraint runs when
\* vals names is_active.
ConfigWrite(ids, vals) ==
    /\ Idle
    /\ LET stored == WriteSkipSync(configs, ids, vals)
           e == IF "is_active" \in DOMAIN vals THEN CheckUniqueActive(stored, ids)
                ELSE NoExc
       IN  /\ configs' = IF e # NoExc THEN configs ELSE stored
           /\ last' = ConfigHistory("config_write", ids, vals, e)
    /\ now' = now + 1
    /\ UNCHANGED <<employees, archived, leave_types, leaves, leave_seq, remote>>

\* The database before any configuration exists.
InitConfig ==
    /\ configs = <<>>
    /\ employees = [e \in EmployeeIds |-> 0]
    /\ archived = {}
    /\ leave_types = [t \in LeaveTypeIds |-> 0]
    /\ leaves = <<>>
    /\ leave_seq = 0
    /\ remote = <<>>
    /\ now = 1
    /\ last = NoHistory

ConfigCreateRequest ==
    /\ now <= MaxNow
    /\ \E vals_list \in ConfigLists : ConfigCreate(vals_list)

ConfigWriteRequest ==
    /\ now <= MaxNow
    /\ \E ids \in SUBSET DOMAIN configs \ {{}}, vals \in ConfigWriteVals :
          ConfigWrite(ids, vals)

NextConfig ==
    \/ ConfigCreateRequest
    \/ ConfigWriteRequest
    \/ RequestEnd

SpecConfig == InitConfig /\ [][NextConfig]_vars

---------------------------------------------------------------------------
(* Actions: the administrator's edits of the mappings, remote_employee_id on
   hr.employee and remote_leave_type_id on hr.leave.type.  Both tables map a
   record id to the value of that field, 0 when it is unset. *)

\* What create and write are given for the field: unset, or a remote id.
MappingVals ==
    {[remote_id |-> v] : v \in 0..MaxMapId}

\* create is called with up to MaxBatch vals.
MappingLists ==
    UNION {[1..n -> MappingVals] : n \in 1..MaxBatch}

\* The table after create(vals_list) has stored its records.
MappingCreated(table, vals_list) ==
    [i \in 1..(Len(table) + Len(vals_list)) |->
        IF i <= Len(table) THEN table[i] ELSE vals_list[i - Len(table)].remote_id]

\* The table after write(vals) has stored the field on the records ids.
MappingWritten(table, ids, vals) ==
    [i \in DOMAIN table |-> IF i \in ids THEN vals.remote_id ELSE table[i]]

\* HrEmployee._check_remote_employee_id_unique on the records ids: the
\* exception raised for the first record that has a remote id which the
\* search finds on another employee, or NoExc.  hr.employee has an `active`
\* field, so self.search, called with the default context, returns only
\* employees that are not archived.
CheckRemoteEmployeeIdUnique(emps, ids) ==
    LET clash == {rec \in ids :
                    /\ emps[rec] # 0
                    /\ \E d \in DOMAIN emps \ archived :
                          d # rec /\ emps[d] = emps[rec]}
    IN  IF clash = {} THEN NoExc
        ELSE Exc("ValidationError", "Remote Employee ID is already assigned",
                 emps[Min(clash)])

MappingHistory(op, ids, vals, e, table) ==
    [op |-> op, ids |-> ids, vals |-> vals, skip |-> FALSE, exc |-> e,
     attempts |-> <<>>, pre |-> table, pre_remote |-> remote, time |-> now]

\* hr.employee create(vals_list): the records are stored, then the constraint
\* of remote_employee_id runs on them; an exception rolls the create back.
EmployeeCreate(vals_list) ==
    /\ Idle
    /\ Len(employees) + Len(vals_list) <= MaxMapped
    /\ LET stored == MappingCreated(employees, vals_list)
           ids == DOMAIN stored \ DOMAIN employees
           e == CheckRemoteEmployeeIdUnique(stored, ids)
       IN  /\ employees' = IF e # NoExc THEN employees ELSE stored
           /\ last' = MappingHistory("employee_create", ids, vals_list, e, employees)
    /\ now' = now + 1
    /\ UNCHANGED <<configs, archived, leave_types, leaves, leave_seq, remote>>

\* hr.employee write(vals) naming remote_employee_id, on the records ids.
EmployeeWrite(ids, vals) ==
    /\ Idle
    /\ LET stored == MappingWritten(employees, ids, vals)
           e == CheckRemoteEmployeeIdUnique(stored, ids)
       IN  /\ employees' = IF e # NoExc THEN employees ELSE stored
           /\ last' = MappingHistory("employee_write", ids, vals, e, employees)
    /\ now' = now + 1
    /\ UNCHANGED <<configs, archived, leave_types, leaves, leave_seq, remote>>

\* hr.employee write({'active': active}) on the records ids, the archive and
\* unarchive of employees: vals does not name remote_employee_id, so the
\* constraint does not run.
EmployeeArchive(ids, active) ==
    /\ Idle
    /\ archived' = IF active THEN archived \ ids ELSE archived \cup ids
    /\ last' = MappingHistory("employee_archive", ids, [active |-> active], NoExc, employees)
    /\ now' = now + 1
    /\ UNCHANGED <<configs, employees, leave_types, leaves, leave_seq, remote>>

\* hr.leave.type create(vals_list): HrLeaveType adds the field and nothing
\* that runs on create.
LeaveTypeCreate(vals_list) ==
    /\ Idle
    /\ Len(leave_types) + Len(vals_list) <= MaxMapped
    /\ LET stored == MappingCreated(leave_types, vals_list)
       IN  /\ leave_types' = stored
           /\ last' = MappingHistory("leave_type_create",
                                     DOMAIN stored \ DOMAIN leave_types, vals_list,
                                     NoExc, leave_types)
    /\ now' = now + 1
    /\ UNCHANGED <<configs, employees, archived, leaves, leave_seq, remote>>

\* hr.leave.type write(vals) naming remote_leave_type_id, on the records ids.
LeaveTypeWrite(ids, vals) ==
    /\ Idle
    /\ leave_types' = MappingWritten(leave_types, ids, vals)
    /\ last' = MappingHistory("leave_type_write", ids, vals, NoExc, leave_types)
    /\ now' = now + 1
    /\ UNCHANGED <<configs, employees, archived, leaves, leave_seq, remote>>

\* The database before any employee or leave type exists.
InitMapping ==
    /\ configs = <<>>
    /\ employees = <<>>
    /\ archived = {}
    /\ leave_types = <<>>
    /\ leaves = <<>>
    /\ leave_seq = 0
    /\ remote = <<>>
    /\ now = 1
    /\ last = NoHistory

EmployeeCreateRequest ==
    /\ now <= MaxNow
    /\ \E vals_list \in MappingLists : EmployeeCreate(vals_list)

EmployeeWriteRequest ==
    /\ now <= MaxNow
    /\ \E ids \in SUBSET DOMAIN employees \ {{}}, vals \in MappingVals :
          EmployeeWrite(ids, vals)

EmployeeArchiveRequest ==
    /\ now <= MaxNow
    /\ \E ids \in SUBSET DOMAIN employees \ {{}}, active \in BOOLEAN :
          EmployeeArchive(ids, active)

LeaveTypeCreateRequest ==
    /\ now <= MaxNow
    /\ \E vals_list \in MappingLists : LeaveTypeCreate(vals_list)

LeaveTypeWriteRequest ==
    /\ now <= MaxNow
    /\ \E ids \in SUBSET DOMAIN leave_types \ {{}}, vals \in MappingVals :
          LeaveTypeWrite(ids, vals)

NextMapping ==
    \/ EmployeeCreateRequest
    \/ EmployeeWriteRequest
    \/ EmployeeArchiveRequest
    \/ LeaveTypeCreateRequest
    \/ LeaveTypeWriteRequest
    \/ RequestEnd

SpecMapping == InitMapping /\ [][NextMapping]_vars

----------------------------------------------------------------------------
(* Specification of the sync engine: requests that cover one leave each, the
   administrator editing the configuration between them *)

Next ==
    \/ CreateRequest({l \in CreateLists : Len(l) = 1 /\ leave_seq < MaxLeaves}, MaxNow)
    \/ WriteRequest({{i} : i \in DOMAIN leaves}, MaxNow)
    \/ UnlinkRequest({{i} : i \in DOMAIN leaves}, MaxNow)
    \/ ConfigWriteRequest
    \/ RequestEnd
    \/ \E rid \in DOMAIN remote : RemoteLost(rid)

Spec == Init /\ [][Next]_vars

---------------------------------------------------------------------------
(* The claims *)

LeaveOps == {"create", "write", "unlink"}

\* The fields of a leave that the sync engine keeps.
SyncFields == {"remote_leave_id", "sync_status", "sync_error_message", "last_sync_date"}

\* The fields of a leave that its own lifecycle keeps.
LifecycleFields ==
    {"employee_id", "holiday_status_id", "state", "date_from", "date_to", "number_of_days"}

SameOn(fields, r1, r2) ==
    \A f \in fields : r1[f] = r2[f]

\* The remote calls that change the remote database.
ChangingOps == {"create", "write", "unlink", "action_approve", "action_refuse"}

\* C1: a sync attempt of any type in which nothing raises (the connection, both
\* mapping lookups and every remote call succeed) leaves the leave with
\* sync_status synced, no error message, and last_sync_date at the time of
\* the request.
C1_SuccessMarksSynced ==
    \A i \in DOMAIN last.attempts :
        LET a == last.attempts[i] IN
        a.exc = NoExc =>
            /\ a.after.sync_status = "synced"
            /\ a.after.sync_error_message = NoMessage
            /\ a.after.last_sync_date = last.time

\* C1 witness: an attempt succeeds on a leave that an earlier request left
\* failed, with an error stored and an older sync date.
C1_Witness ==
    \E i \in DOMAIN last.attempts :
        LET a == last.attempts[i] IN
        /\ a.exc = NoExc
        /\ a.calls # <<>>
        /\ a.before.sync_status = "failed"
        /\ a.before.sync_error_message # NoMessage
        /\ a.before.last_sync_date \notin {0, last.time}

\* C2: a sync attempt in which a step raises (opening the connection, a
\* mapping lookup, a remote call) leaves the leave with sync_status failed and
\* an error message, and with its lifecycle fields as they were.
C2_FailureMarksFailed ==
    \A i \in DOMAIN last.attempts :
        LET a == last.attempts[i] IN
        a.exc # NoExc =>
            /\ a.after.sync_status = "failed"
            /\ a.after.sync_error_message # NoMessage
            /\ SameOn(LifecycleFields, a.after, a.before)

\* C2 witness: a remote call raises after an earlier call of the attempt went
\* through, on a leave that was synced.
C2_Witness ==
    \E i \in DOMAIN last.attempts :
        LET a == last.attempts[i] IN
        /\ a.exc.cls = "RPCError"
        /\ Len(a.calls) >= 2
        /\ a.before.sync_status = "synced"
        /\ a.after.sync_status = "failed"

\* C3: no sync failure propagates out of a create, write or unlink of leaves,
\* of one record or of several: the request raises nothing and its local
\* effect is applied.
C3_NoFailurePropagates ==
    last.op \in LeaveOps =>
        /\ last.exc = NoExc
        /\ last.op = "create" => last.ids \subseteq DOMAIN leaves
        /\ last.op = "write" =>
              \A i \in last.ids : \A f \in DOMAIN last.vals : leaves[i][f] = last.vals[f]
        /\ last.op = "unlink" => last.ids \cap DOMAIN leaves = {}

\* The configuration table a create or write request asks for.
ConfigAsked ==
    IF last.op = "config_write" THEN WriteSkipSync(last.pre, last.ids, last.vals)
    ELSE [c \in DOMAIN last.pre \cup last.ids |->
            IF c \in last.ids THEN last.vals[c - Cardinality(DOMAIN last.pre)]
            ELSE last.pre[c]]

\* C4: at most one configuration is active, and a create or write that asks
\* for a second active configuration raises and leaves the table as it was.
C4_AtMostOneActive ==
    /\ Cardinality(ActiveIds(configs)) <= 1
    /\ last.op \in {"config_create", "config_write"}
       /\ Cardinality(ActiveIds(ConfigAsked)) > 1
       => /\ last.exc # NoExc
          /\ configs = last.pre

\* C4 witness: one configuration is active and a write that activates another
\* one fails validation.
C4_Witness ==
    /\ last.op = "config_write"
    /\ Cardinality(last.ids) = 1
    /\ last.ids \cap ActiveIds(last.pre) = {}
    /\ Cardinality(ActiveIds(last.pre)) = 1
    /\ last.vals = [is_active |-> TRUE]
    /\ last.exc.cls = "ValidationError"
    /\ configs = last.pre

\* The employee or the leave type of the attempt's leave has no remote id.
MissingMapping(a) ==
    \/ employees[a.before.employee_id] = 0
    \/ leave_types[a.before.holiday_status_id] = 0

MappingKinds ==
    {"Employee is missing remote_employee_id", "Leave type is missing remote_leave_type_id"}

\* C5 as stated: an attempt on a leave with a missing mapping ends failed with
\* a message that identifies the missing mapping, the lookups coming before any
\* remote call, the opening of the remote session included.
C5_MappingsBeforeSession ==
    \A i \in DOMAIN last.attempts :
        LET a == last.attempts[i] IN
        MissingMapping(a) =>
            /\ a.after.sync_status = "failed"
            /\ a.after.sync_error_message.kind \in MappingKinds
            /\ a.connects = 0
            /\ a.calls = <<>>

\* C5 amended: an attempt on a leave with a missing mapping ends failed and
\* makes no call on the remote leave model.  The remote session is opened
\* first: when it opens, the message identifies the missing mapping (the
\* employee's when both are missing); when it does not, the message is the
\* connection error.
C5_MappingsBeforeModelCalls ==
    \A i \in DOMAIN last.attempts :
        LET a == last.attempts[i]
            e == a.before.employee_id
            t == a.before.holiday_status_id
        IN  MissingMapping(a) =>
            /\ a.after.sync_status = "failed"
            /\ a.calls = <<>>
            /\ a.connects = 1
            /\ a.after.remote_leave_id = a.before.remote_leave_id
            /\ a.connected =>
                  a.after.sync_error_message =
                      IF employees[e] = 0
                      THEN Message("", Exc("Exception", "Employee is missing remote_employee_id", e))
                      ELSE Message("", Exc("Exception", "Leave type is missing remote_leave_type_id", t))
            /\ ~a.connected =>
                  a.after.sync_error_message.kind
                      \in {"Remote connection failed", "Unable to connect to remote database"}

\* C5 witness: the session opens for a leave whose employee is mapped and whose
\* leave type is not, and the attempt fails on the leave type.
C5_Witness ==
    \E i \in DOMAIN last.attempts :
        LET a == last.attempts[i] IN
        /\ a.connected
        /\ employees[a.before.employee_id] # 0
        /\ leave_types[a.before.holiday_status_id] = 0
        /\ a.after.sync_status = "failed"
        /\ a.after.sync_error_message.kind = "Leave type is missing remote_leave_type_id"

\* The request left the sync fields of its leaves as they were (at their
\* defaults on the leaves a create makes).
SyncFieldsKept ==
    \A i \in last.ids \cap DOMAIN leaves :
        IF i \in DOMAIN last.pre
        THEN SameOn(SyncFields, leaves[i], last.pre[i])
        ELSE /\ leaves[i].remote_leave_id = 0
             /\ leaves[i].sync_status = "not_synced"
             /\ leaves[i].sync_error_message = NoMessage
             /\ leaves[i].last_sync_date = 0

\* The request made no sync attempt (so no remote call) and changed neither
\* the remote nor the sync fields.
NoSync ==
    /\ last.attempts = <<>>
    /\ remote = last.pre_remote
    /\ SyncFieldsKept

\* C6: with no active configuration a create, write or unlink of leaves makes
\* no sync attempt (so no remote call), raises nothing, leaves the remote as
\* it is and leaves the sync fields of its leaves as they were.
C6_NoActiveConfigNoOp ==
    last.op \in LeaveOps /\ ActiveIds(configs) = {} =>
        /\ NoSync
        /\ last.exc = NoExc

\* C6 witness: the configuration was deactivated after the leave was synced,
\* and a later write changes a date of the leave.
C6_Witness ==
    /\ last.op = "write"
    /\ ~last.skip
    /\ ActiveIds(configs) = {}
    /\ "date_from" \in DOMAIN last.vals
    /\ \E i \in last.ids :
          /\ last.pre[i].remote_leave_id # 0
          /\ last.pre[i].sync_status = "synced"
          /\ leaves[i].date_from # last.pre[i].date_from

AttemptTypes ==
    {last.attempts[i].sync_type : i \in DOMAIN last.attempts}

DateFields == {"date_from", "date_to", "number_of_days"}

\* The request is a write that sets state to s.
WritesState(s) ==
    /\ last.op = "write"
    /\ "state" \in DOMAIN last.vals
    /\ last.vals.state = s

\* C7: with an active configuration, a create sync is started only by a create
\* with sync_on_request on and no skip_sync, an approve sync only by a write of
\* state validate with sync_on_approve on, a refuse sync only by a write of
\* state refuse with sync_on_refuse on.  With its toggle off the event starts
\* no sync: no remote call is made and the sync fields stay (a date in the
\* same write is another event, and can start an update sync only).
C7_TogglesGate ==
    last.op \in LeaveOps /\ ActiveIds(configs) # {} =>
        LET config == GetActiveConfig(configs) IN
        /\ "create" \in AttemptTypes =>
              last.op = "create" /\ config.sync_on_request /\ ~last.skip
        /\ "approve" \in AttemptTypes =>
              WritesState("validate") /\ config.sync_on_approve
        /\ "refuse" \in AttemptTypes =>
              WritesState("refuse") /\ config.sync_on_refuse
        /\ last.op = "create" /\ ~config.sync_on_request => NoSync
        /\ \/ WritesState("validate") /\ ~config.sync_on_approve
           \/ WritesState("refuse") /\ ~config.sync_on_refuse
           => /\ AttemptTypes \subseteq {"update"}
              /\ DOMAIN last.vals \cap DateFields = {} => NoSync

\* C7 witness: sync_on_refuse is off and a synced leave is refused with no
\* skip_sync: nothing is sent.
C7_Witness ==
    /\ ActiveIds(configs) # {}
    /\ ~GetActiveConfig(configs).sync_on_refuse
    /\ GetActiveConfig(configs).sync_on_approve
    /\ last.op = "write"
    /\ ~last.skip
    /\ last.vals = [state |-> "refuse"]
    /\ last.attempts = <<>>
    /\ \E i \in last.ids :
          /\ last.pre[i].remote_leave_id # 0
          /\ last.pre[i].sync_status = "synced"
          /\ leaves[i].state = "refuse"

\* The approve or refuse attempts of the request on leave id.
StateAttempts(id) ==
    {i \in DOMAIN last.attempts :
        last.attempts[i].leave = id /\ last.attempts[i].sync_type \in {"approve", "refuse"}}

\* remote_leave_id of leave id when the write comes to its date fields: what
\* the state sync of the same write left, if there was one.
RemoteIdAtDateSync(id) ==
    IF StateAttempts(id) = {} THEN last.pre[id].remote_leave_id
    ELSE last.attempts[CHOOSE i \in StateAttempts(id) : TRUE].after.remote_leave_id

\* C8: a write of date_from, date_to or number_of_days on a leave, with an
\* active configuration and no skip_sync, starts an update sync iff the leave
\* has a remote_leave_id at that point; with none, the write makes no remote
\* call and no remote record for the dates.
C8_UpdateIffRemoteId ==
    /\ last.op = "write"
    /\ ~last.skip
    /\ ActiveIds(configs) # {}
    /\ DOMAIN last.vals \cap DateFields # {}
    => \A id \in last.ids :
          LET updates == {i \in DOMAIN last.attempts :
                             last.attempts[i].leave = id
                             /\ last.attempts[i].sync_type = "update"}
          IN  /\ updates # {} <=> RemoteIdAtDateSync(id) # 0
              /\ Cardinality(updates) <= 1
              /\ \A i \in updates :
                    last.attempts[i].before.remote_leave_id = RemoteIdAtDateSync(id)
              /\ RemoteIdAtDateSync(id) = 0 /\ StateAttempts(id) = {} =>
                    /\ last.attempts = <<>>
                    /\ remote = last.pre_remote

\* C8 witness: a date of a leave with a remote record is written and the
\* update sync sends it.
C8_Witness ==
    /\ last.op = "write"
    /\ ~last.skip
    /\ last.vals = [date_to |-> 2]
    /\ \E id \in last.ids :
          /\ last.pre[id].remote_leave_id # 0
          /\ Len(last.attempts) = 1
          /\ last.attempts[1].sync_type = "update"
          /\ last.attempts[1].exc = NoExc
          /\ remote[last.pre[id].remote_leave_id].date_to = DatetimeToString(2)
          /\ last.pre_remote[last.pre[id].remote_leave_id].date_to = DatetimeToString(1)

\* The remote call a sync type asks for.
RequestedCall(sync_type) ==
    CASE sync_type = "approve" -> "action_approve"
      [] sync_type = "refuse" -> "action_refuse"
      [] sync_type = "update" -> "write"
      [] OTHER -> sync_type

\* C9: an approve, refuse or update attempt on a leave with no remote_leave_id
\* (the session open, the mappings there) first creates the remote record
\* from the leave's current fields and stores its id; every later call of the
\* attempt is on that record, the requested one among them when nothing
\* raises.  With state validate and auto_approve_remote the create is followed
\* at once by action_approve, and the leave ends synced.
C9_AutoCreateFirst ==
    \A i \in DOMAIN last.attempts :
        LET a == last.attempts[i]
            b == a.before
        IN  /\ a.sync_type \in {"approve", "refuse", "update"}
            /\ b.remote_leave_id = 0
            /\ a.connected
            /\ ~MissingMapping(a)
            => /\ a.calls # <<>>
               /\ a.calls[1].op = "create"
               /\ a.calls[1].vals =
                     [employee_id |-> employees[b.employee_id],
                      holiday_status_id |-> leave_types[b.holiday_status_id],
                      date_from |-> DatetimeToString(b.date_from),
                      date_to |-> DatetimeToString(b.date_to),
                      number_of_days |-> b.number_of_days]
               /\ a.calls[1].ok <=> a.after.remote_leave_id # 0
               /\ a.calls[1].ok => a.after.remote_leave_id = a.calls[1].id
               /\ \A k \in 2..Len(a.calls) :
                     a.calls[k].id = a.calls[1].id /\ a.calls[k].op # "create"
               /\ a.exc = NoExc =>
                     \E k \in 2..Len(a.calls) : a.calls[k].op = RequestedCall(a.sync_type)
               /\ b.state = "validate" /\ GetActiveConfig(configs).auto_approve_remote =>
                     /\ Len(a.calls) >= 2 => a.calls[2].op = "action_approve"
                     /\ a.exc = NoExc =>
                           Len(a.calls) >= 2 /\ a.after.sync_status = "synced"

\* C9 witness: a leave that was never synced is validated, with new dates,
\* under auto_approve_remote: create, then action_approve, then synced.
C9_Witness ==
    \E i \in DOMAIN last.attempts :
        LET a == last.attempts[i] IN
        /\ a.sync_type = "approve"
        /\ a.before.remote_leave_id = 0
        /\ GetActiveConfig(configs).auto_approve_remote
        /\ a.exc = NoExc
        /\ Len(a.calls) >= 2
        /\ a.calls[1].op = "create"
        /\ a.calls[1].vals.date_from = DatetimeToString(2)
        /\ last.pre[a.leave].date_from = 1
        /\ a.calls[2].op = "action_approve"
        /\ a.after.sync_status = "synced"
        /\ a.after.remote_leave_id = a.calls[1].id

\* The remote state an approve or refuse sync asks for.
TargetState(sync_type) ==
    IF sync_type = "approve" THEN "validate" ELSE "refuse"

\* The attempt is an approve (refuse) sync on a leave whose remote record is
\* there and already approved (refused).
AlreadyThere(a) ==
    /\ a.sync_type \in {"approve", "refuse"}
    /\ RemoteExists(a.pre_remote, a.before.remote_leave_id)
    /\ a.pre_remote[a.before.remote_leave_id].state = TargetState(a.sync_type)

\* C10: an approve (refuse) sync on a leave whose remote record is already
\* approved (refused) makes no call that changes the remote, and ends synced
\* unless the session or a remote read fails; so a second refuse (approve) in
\* a row invokes no second remote action.
C10_ApproveRefuseIdempotent ==
    \A i \in DOMAIN last.attempts :
        LET a == last.attempts[i] IN
        AlreadyThere(a) =>
            /\ \A k \in DOMAIN a.calls : a.calls[k].op \notin ChangingOps
            /\ a.exc.cls \in {"none", "UserError", "RPCError"}
            /\ a.exc = NoExc => a.after.sync_status = "synced"
            /\ a.after.remote_leave_id = a.before.remote_leave_id

\* C10 witness: a leave refused and synced by the request before is refused
\* again: the remote is read, nothing is invoked, the leave is synced.
C10_Witness ==
    \E i \in DOMAIN last.attempts :
        LET a == last.attempts[i] IN
        /\ AlreadyThere(a)
        /\ a.sync_type = "refuse"
        /\ last.pre[a.leave].state = "refuse"
        /\ last.pre[a.leave].sync_status = "synced"
        /\ last.pre[a.leave].last_sync_date = last.time - 1
        /\ a.exc = NoExc
        /\ a.calls # <<>>
        /\ a.after.sync_status = "synced"

\* The exceptions the environment causes: the session does not open, or a
\* remote call raises.
EnvironmentExc == {"UserError", "RPCError"}

\* C11: a delete sync on a leave whose remote_leave_id is set completes the
\* local delete whatever happens.  When the remote record is gone, no call
\* changes the remote, nothing is raised by the missing record and the attempt
\* counts as synced; when the remote record is there and nothing raises, it is
\* unlinked.
C11_DeleteIdempotent ==
    \A i \in DOMAIN last.attempts :
        LET a == last.attempts[i]
            rid == a.before.remote_leave_id
        IN  a.sync_type = "delete" /\ rid # 0 =>
            /\ last.op = "unlink"
            /\ last.exc = NoExc
            /\ a.leave \notin DOMAIN leaves
            /\ ~RemoteExists(a.pre_remote, rid) =>
                  /\ \A k \in DOMAIN a.calls : a.calls[k].op \notin ChangingOps
                  /\ a.exc.cls \in {"none"} \cup EnvironmentExc
                  /\ a.exc = NoExc => a.after.sync_status = "synced"
                  /\ remote = last.pre_remote
            /\ RemoteExists(a.pre_remote, rid) /\ a.exc = NoExc =>
                  /\ \E k \in DOMAIN a.calls :
                        a.calls[k] = [op |-> "unlink", id |-> rid, ok |-> TRUE, vals |-> NoVals]
                  /\ ~RemoteExists(remote, rid)
                  /\ a.after.sync_status = "synced"

\* C11 witness: the remote record of a synced leave was removed on the remote
\* side, and the leave is then deleted: the remote is asked, nothing is
\* unlinked, the attempt is synced and the leave is gone.
C11_Witness ==
    /\ last.op = "unlink"
    /\ last.exc = NoExc
    /\ \E i \in DOMAIN last.attempts :
          LET a == last.attempts[i] IN
          /\ a.sync_type = "delete"
          /\ a.before.remote_leave_id # 0
          /\ ~RemoteExists(a.pre_remote, a.before.remote_leave_id)
          /\ a.calls # <<>>
          /\ a.exc = NoExc
          /\ a.after.sync_status = "synced"
          /\ a.leave \notin DOMAIN leaves

\* The delete attempts of the last request on leaves that have no
\* remote_leave_id.
NeverSyncedDeletes ==
    {i \in DOMAIN last.attempts :
        /\ last.attempts[i].sync_type = "delete"
        /\ last.attempts[i].before.remote_leave_id = 0}

\* C12 as stated: deleting a leave that has no remote_leave_id opens no remote
\* session, makes no remote call, records no failure and leaves the sync
\* tracking fields as they were.
C12_NeverSyncedDeleteSilent ==
    \A i \in NeverSyncedDeletes :
        LET a == last.attempts[i] IN
        /\ a.connects = 0
        /\ a.calls = <<>>
        /\ a.exc = NoExc
        /\ SameOn(SyncFields, a.after, a.before)

\* C12: deleting a leave that has no remote_leave_id makes no call on the
\* remote leave model, changes no remote record and completes the local
\* delete.  The attempt itself still runs: it opens the remote session once,
\* and the leave is marked synced, or failed when the session does not open or
\* a mapping is missing, before it is deleted; remote_leave_id stays empty.
C12_NeverSyncedDeleteNoModelCall ==
    \A i \in NeverSyncedDeletes :
        LET a == last.attempts[i] IN
        /\ a.calls = <<>>
        /\ a.connects = 1
        /\ remote = last.pre_remote
        /\ last.op = "unlink"
        /\ last.exc = NoExc
        /\ a.leave \notin DOMAIN leaves
        /\ a.trail[1] = "syncing"
        /\ a.after.remote_leave_id = 0
        /\ a.after.sync_status = (IF a.exc = NoExc THEN "synced" ELSE "failed")
        /\ a.exc # NoExc => \/ a.exc.cls = "UserError"
                            \/ MissingMapping(a)

\* C12 witness: a leave that was never synced is deleted while the remote is
\* reachable: the session is opened, no call follows, and the leave is marked
\* synced just before it is removed.
C12_Witness ==
    /\ last.op = "unlink"
    /\ \E i \in NeverSyncedDeletes :
          LET a == last.attempts[i] IN
          /\ a.before.sync_status = "not_synced"
          /\ a.connected
          /\ a.calls = <<>>
          /\ a.after.sync_status = "synced"
          /\ a.leave \notin DOMAIN leaves

\* The attempt is an update, approve or refuse sync on a leave that has a
\* remote_leave_id whose remote record is gone.
RemoteRecordMissing(a) ==
    /\ a.sync_type \in {"update", "approve", "refuse"}
    /\ a.before.remote_leave_id # 0
    /\ ~RemoteExists(a.pre_remote, a.before.remote_leave_id)

\* C13: an update, approve or refuse sync on a leave whose remote record no
\* longer exists is a hard failure: no call changes the remote (no write, no
\* action, no create of a replacement), remote_leave_id is kept, the attempt
\* ends failed, and once the remote has answered the lookup the message is
\* "Remote leave <id> not found" for the stored id.
C13_MissingRemoteIsFailure ==
    \A i \in DOMAIN last.attempts :
        LET a == last.attempts[i]
            rid == a.before.remote_leave_id
        IN  RemoteRecordMissing(a) =>
            /\ a.after.sync_status = "failed"
            /\ a.exc # NoExc
            /\ \A k \in DOMAIN a.calls : a.calls[k].op \notin ChangingOps
            /\ a.after.remote_leave_id = rid
            /\ DOMAIN remote = DOMAIN last.pre_remote
            /\ (a.connected /\ \A k \in DOMAIN a.calls : a.calls[k].ok) =>
                  /\ a.calls = <<[op |-> "exists", id |-> rid, ok |-> TRUE, vals |-> NoVals]>>
                  /\ a.exc = Exc("Exception", "Remote leave not found", rid)
                  /\ a.after.sync_error_message = Message("", a.exc)

\* C13 witness: a date write on a synced leave whose remote record was removed
\* on the remote side: the lookup is answered and the update fails with the
\* not-found message.
C13_Witness ==
    \E i \in DOMAIN last.attempts :
        LET a == last.attempts[i] IN
        /\ RemoteRecordMissing(a)
        /\ a.sync_type = "update"
        /\ a.before.sync_status = "synced"
        /\ a.after.sync_status = "failed"
        /\ a.after.sync_error_message.kind = "Remote leave not found"
        /\ a.after.sync_error_message.ref = a.before.remote_leave_id

\* The remote creates of attempt a that succeeded.
CreatedBy(a) ==
    {k \in DOMAIN a.calls : a.calls[k].op = "create" /\ a.calls[k].ok}

\* C14 as stated: after every attempt that ends failed, remote_leave_id is
\* what it was before the attempt.
C14_FailedKeepsRemoteId ==
    \A i \in DOMAIN last.attempts :
        LET a == last.attempts[i] IN
        a.after.sync_status = "failed" =>
            a.after.remote_leave_id = a.before.remote_leave_id

\* C14: after every attempt that ends failed, remote_leave_id is what it was
\* before the attempt, unless a remote create of the attempt had succeeded
\* before the failure: then the leave had none before and keeps the id of the
\* record just created.
C14_FailedKeepsRemoteIdOrCreated ==
    \A i \in DOMAIN last.attempts :
        LET a == last.attempts[i] IN
        a.after.sync_status = "failed" =>
            IF CreatedBy(a) = {}
            THEN a.after.remote_leave_id = a.before.remote_leave_id
            ELSE /\ CreatedBy(a) = {1}
                 /\ a.before.remote_leave_id = 0
                 /\ a.after.remote_leave_id = a.calls[1].id
                 /\ a.after.remote_leave_id # 0
                 /\ Len(a.calls) > 1
                 /\ ~a.calls[Len(a.calls)].ok

\* C14 witness: the remote create of an attempt succeeds and the call after it
\* raises: the attempt ends failed and the leave keeps the id of the record
\* that was created.
C14_Witness ==
    \E i \in DOMAIN last.attempts :
        LET a == last.attempts[i] IN
        /\ a.after.sync_status = "failed"
        /\ a.before.remote_leave_id = 0
        /\ CreatedBy(a) = {1}
        /\ a.after.remote_leave_id = a.calls[1].id
        /\ RemoteExists(remote, a.after.remote_leave_id)

\* sync_status of the leave of attempt i when the attempt starts, as the
\* request's history has it: what the attempt before it on the same leave
\* left, else what the leave had before the request (the default on a leave
\* the request creates).
StatusBefore(i) ==
    LET id == last.attempts[i].leave
        earlier == {j \in 1..(i - 1) : last.attempts[j].leave = id}
    IN  IF earlier # {}
        THEN last.attempts[CHOOSE j \in earlier : \A k \in earlier : k <= j].after.sync_status
        ELSE IF id \in DOMAIN last.pre THEN last.pre[id].sync_status
        ELSE "not_synced"

\* sync_status of leave id when the request is over, as the history has it.
StatusAfter(id) ==
    LET mine == {j \in DOMAIN last.attempts : last.attempts[j].leave = id}
    IN  IF mine # {}
        THEN last.attempts[CHOOSE j \in mine : \A k \in mine : k <= j].after.sync_status
        ELSE IF id \in DOMAIN last.pre THEN last.pre[id].sync_status
        ELSE "not_synced"

\* Through a leave request, sync_status changes in attempts only, and every
\* attempt takes it to syncing and from there to synced or failed.
StatusPath ==
    /\ \A i \in DOMAIN last.attempts :
          LET a == last.attempts[i] IN
          /\ a.before.sync_status = StatusBefore(i)
          /\ a.before.sync_status # "syncing"
          /\ a.after.sync_status \in {"synced", "failed"}
          /\ a.trail = <<"syncing", a.after.sync_status>>
    /\ \A id \in DOMAIN leaves :
          /\ leaves[id].sync_status = StatusAfter(id)
          /\ leaves[id].sync_status = "not_synced" =>
                /\ \A i \in DOMAIN last.attempts : last.attempts[i].leave # id
                /\ id \in DOMAIN last.pre => last.pre[id].sync_status = "not_synced"

\* A step that is not a leave request makes no attempt: every leave keeps its
\* sync_status.
StatusKept ==
    /\ DOMAIN leaves' = DOMAIN leaves
    /\ \A id \in DOMAIN leaves : leaves'[id].sync_status = leaves[id].sync_status

\* C15: sync_status of a leave moves only along not_synced -> syncing ->
\* {synced | failed}, and from synced or failed back to syncing only in the
\* attempt of a later leave request.  In every step that is a leave request
\* each attempt starts from the status the leave had, writes syncing, then
\* synced or failed, and a status that has left not_synced never returns to
\* it; in every other step no status changes, so a failed leave is not retried.
C15_StatusMoves ==
    [][IF last'.op \in LeaveOps
       THEN last'.pre = leaves /\ StatusPath'
       ELSE StatusKept]_vars

\* C15 witness: a failed leave is taken up again by a later request, and that
\* attempt goes through syncing to synced.
C15_Witness ==
    \E i \in DOMAIN last.attempts :
        LET a == last.attempts[i] IN
        /\ a.before.sync_status = "failed"
        /\ a.trail = <<"syncing", "synced">>
        /\ a.leave \in DOMAIN leaves
        /\ leaves[a.leave].sync_status = "synced"

\* The attempts of the last request on leave id.
AttemptsOn(id) ==
    {i \in DOMAIN last.attempts : last.attempts[i].leave = id}

\* C16: a create, write or unlink that carries the skip_sync flag starts no
\* attempt, calls nothing on the remote and leaves the sync fields alone; and
\* one request makes a bounded number of attempts: only on its own leaves, at
\* most one per leave for a create or an unlink, at most two of different
\* types per leave for a write, each attempt writing sync_status exactly twice
\* (under the flag) and opening at most one session.
C16_SkipFlagBoundsAttempts ==
    last.op \in LeaveOps =>
        /\ last.skip =>
              /\ last.attempts = <<>>
              /\ remote = last.pre_remote
              /\ last.exc = NoExc
              /\ SyncFieldsKept
        /\ \A i \in DOMAIN last.attempts :
              LET a == last.attempts[i] IN
              /\ a.leave \in last.ids
              /\ Len(a.trail) = 2
              /\ a.connects <= 1
              /\ \A j \in AttemptsOn(a.leave) : j # i => last.attempts[j].sync_type # a.sync_type
        /\ \A id \in last.ids :
              Cardinality(AttemptsOn(id)) <= (IF last.op = "write" THEN 2 ELSE 1)

\* C16 witness: one write that makes the most attempts a request can make on
\* a leave, a state sync and a date sync, both of which end synced.
C16_Witness ==
    /\ last.op = "write"
    /\ ~last.skip
    /\ \E id \in last.ids :
          /\ Cardinality(AttemptsOn(id)) = 2
          /\ \A i \in AttemptsOn(id) : last.attempts[i].after.sync_status = "synced"

\* What a remote create has to push for a leave: the mapped ids of its
\* employee and leave type, and its dates and day count as the remote takes
\* them.
PushedFor(leave) ==
    [employee_id |-> employees[leave.employee_id],
     holiday_status_id |-> leave_types[leave.holiday_status_id],
     date_from |-> DatetimeToString(leave.date_from),
     date_to |-> DatetimeToString(leave.date_to),
     number_of_days |-> leave.number_of_days]

\* C17: every remote create pushes the mapped remote ids of the leave's
\* employee and leave type (both set) and the leave's date_from, date_to and
\* number_of_days as they are at the call; when the call succeeds the remote
\* holds a record with these values under the id it returned, and that id is
\* the leave's remote_leave_id.  A create sync in which nothing raises makes
\* that call first and ends with remote_leave_id set and sync_status synced.
C17_CreatePayload ==
    \A i \in DOMAIN last.attempts :
        LET a == last.attempts[i] IN
        /\ \A k \in DOMAIN a.calls :
              a.calls[k].op = "create" =>
                 /\ a.calls[k].vals = PushedFor(a.before)
                 /\ a.calls[k].vals.employee_id # 0
                 /\ a.calls[k].vals.holiday_status_id # 0
                 /\ a.calls[k].ok =>
                       /\ a.calls[k].id \in DOMAIN remote \ DOMAIN a.pre_remote
                       /\ SameOn(DOMAIN PushedFor(a.before), remote[a.calls[k].id],
                                 PushedFor(a.before))
                       /\ a.after.remote_leave_id = a.calls[k].id
        /\ a.sync_type = "create" /\ a.exc = NoExc =>
              /\ a.calls[1].op = "create"
              /\ a.after.remote_leave_id = a.calls[1].id
              /\ a.after.remote_leave_id # 0
              /\ a.after.sync_status = "synced"

\* C17 witness: a leave of employee 1 (remote id 1) with leave type 1 (remote
\* id 2) is created and synced: the create carries these remote ids and the
\* dates of the leave, and the leave holds the returned id.
C17_Witness ==
    /\ last.op = "create"
    /\ \E i \in DOMAIN last.attempts :
          LET a == last.attempts[i] IN
          /\ a.sync_type = "create"
          /\ a.exc = NoExc
          /\ a.before.holiday_status_id # leave_types[a.before.holiday_status_id]
          /\ a.calls[1].op = "create"
          /\ a.calls[1].vals = PushedFor(a.before)
          /\ a.after.remote_leave_id = a.calls[1].id
          /\ a.after.sync_status = "synced"
          /\ RemoteExists(remote, a.after.remote_leave_id)

\* Call k of attempt a is a remote create that succeeded, and the call right
\* after it is an approve of the record it made.
ApprovedRightAfter(a, k) ==
    /\ Len(a.calls) > k
    /\ a.calls[k + 1].op = "action_approve"
    /\ a.calls[k + 1].id = a.calls[k].id

\* C18: a remote create that succeeded is followed at once by an approve of
\* the new record iff auto_approve_remote is set on the active configuration
\* and the leave's state is validate; a create sync issues no approve
\* otherwise.
C18_AutoApproveIff ==
    \A i \in DOMAIN last.attempts :
        LET a == last.attempts[i] IN
        \A k \in CreatedBy(a) :
            /\ ApprovedRightAfter(a, k) <=>
                  /\ GetActiveConfig(configs).auto_approve_remote
                  /\ a.before.state = "validate"
            /\ (a.sync_type = "create" /\ ~ApprovedRightAfter(a, k)) =>
                  /\ Len(a.calls) = 1
                  /\ a.pre_remote = last.pre_remote =>
                        remote[a.calls[k].id].state = "confirm"

\* C18 witness: a validated leave is created with auto_approve_remote on: the
\* create is followed by the approve, and the remote record is validated.
C18_Witness ==
    \E i \in DOMAIN last.attempts :
        LET a == last.attempts[i] IN
        /\ a.sync_type = "create"
        /\ a.exc = NoExc
        /\ GetActiveConfig(configs).auto_approve_remote
        /\ a.before.state = "validate"
        /\ 1 \in CreatedBy(a)
        /\ ApprovedRightAfter(a, 1)
        /\ a.calls[2].ok
        /\ remote[a.calls[1].id].state = "validate"

\* No two records of the mapping table have the same remote id set.
UniqueWhereSet(table) ==
    \A i, j \in DOMAIN table :
        i # j /\ table[i] # 0 => table[i] # table[j]

\* What the last mapping request asked to store.
MappingAsked ==
    IF last.op \in {"employee_create", "leave_type_create"}
    THEN MappingCreated(last.pre, last.vals)
    ELSE MappingWritten(last.pre, last.ids, last.vals)

\* C19 as stated: no two employees ever have the same non-zero
\* remote_employee_id.  A create or an edit of employees fails with
\* ValidationError, and changes nothing, exactly when what it asks for would
\* give two employees the same non-zero remote id; otherwise it is stored as
\* asked, however many employees are left with the id unset.
C19_EmployeeRemoteIdUnique ==
    /\ UniqueWhereSet(employees)
    /\ last.op \in {"employee_create", "employee_write"} =>
          IF UniqueWhereSet(MappingAsked)
          THEN last.exc = NoExc /\ employees = MappingAsked
          ELSE last.exc.cls = "ValidationError" /\ employees = last.pre

\* C20 as stated: no two leave types ever have the same remote_leave_type_id
\* set, and a create or an edit of leave types that would give two of them
\* the same remote id changes nothing.
C20_LeaveTypeRemoteIdUnique ==
    /\ UniqueWhereSet(leave_types)
    /\ (last.op \in {"leave_type_create", "leave_type_write"}
            /\ ~UniqueWhereSet(MappingAsked)) =>
          leave_types = last.pre

\* The remote records that the syncs of leave id have created.
MadeFor(id) ==
    {r \in DOMAIN remote : remote[r].made_for = id}

\* C21 as stated: the engine creates at most one remote record for a leave,
\* and no sync operation changes or clears a remote_leave_id that is set:
\* neither within an attempt nor from before a request to after it.
C21_OneRemoteRecordPerLeave ==
    /\ \A id \in 1..leave_seq : Cardinality(MadeFor(id)) <= 1
    /\ \A i \in DOMAIN last.attempts :
          LET a == last.attempts[i] IN
          a.before.remote_leave_id # 0 =>
              a.after.remote_leave_id = a.before.remote_leave_id
    /\ last.op \in LeaveOps =>
          \A id \in DOMAIN leaves \cap DOMAIN last.pre :
              last.pre[id].remote_leave_id # 0 =>
                  leaves[id].remote_leave_id = last.pre[id].remote_leave_id

\* The request is a write, not under skip_sync, that sets state to validate
\* or refuse and changes a date field at once.
WritesStateAndDates ==
    /\ last.op = "write"
    /\ ~last.skip
    /\ "state" \in DOMAIN last.vals
    /\ last.vals.state \in {"validate", "refuse"}
    /\ DOMAIN last.vals \cap DateFields # {}

\* C22 as stated: in a write that sets state to validate or refuse and changes
\* a date field, the state sync comes before the update sync, and when one of
\* the attempts failed the leave ends the write failed with the message of a
\* failed attempt.
C22_FailureKeptThroughWrite ==
    WritesStateAndDates =>
        \A id \in last.ids \cap DOMAIN leaves :
            /\ \A i, j \in AttemptsOn(id) :
                  (last.attempts[i].sync_type \in {"approve", "refuse"}
                      /\ last.attempts[j].sync_type = "update") => i < j
            /\ (\E i \in AttemptsOn(id) : last.attempts[i].after.sync_status = "failed") =>
                  /\ leaves[id].sync_status = "failed"
                  /\ \E i \in AttemptsOn(id) :
                        /\ last.attempts[i].after.sync_status = "failed"
                        /\ leaves[id].sync_error_message
                              = last.attempts[i].after.sync_error_message

\* C23: once a create, write or unlink is over, on one leave or on several,
\* no leave has sync_status syncing: every attempt of the request wrote
\* syncing first and synced or failed last, failed whenever something raised,
\* at the connection, at a mapping or at any remote call.
C23_NoLeaveLeftSyncing ==
    /\ \A id \in DOMAIN leaves : leaves[id].sync_status # "syncing"
    /\ \A i \in DOMAIN last.attempts :
          LET a == last.attempts[i] IN
          /\ a.trail[1] = "syncing"
          /\ a.trail[Len(a.trail)] \in {"synced", "failed"}
          /\ a.after.sync_status = a.trail[Len(a.trail)]
          /\ a.exc # NoExc <=> a.after.sync_status = "failed"

\* C23 witness: a request on two leaves in which one attempt fails before the
\* session is open and the other at its last remote call: both leaves are
\* left failed.
C23_Witness ==
    /\ last.op \in LeaveOps
    /\ last.exc = NoExc
    /\ \E i, j \in DOMAIN last.attempts :
          LET a == last.attempts[i]
              b == last.attempts[j]
          IN  /\ a.leave # b.leave
              /\ ~a.connected
              /\ a.exc.cls = "UserError"
              /\ b.calls # <<>>
              /\ ~b.calls[Len(b.calls)].ok
              /\ {a.leave, b.leave} \subseteq DOMAIN leaves
              /\ leaves[a.leave].sync_status = "failed"
              /\ leaves[b.leave].sync_status = "failed"

\* The sync types of which the last request made an attempt.
TypesTried ==
    {last.attempts[i].sync_type : i \in DOMAIN last.attempts}

\* C24 as stated: when a create, write or unlink covers several leaves, every
\* sync it starts makes one attempt on each of them, in turn; a date write on
\* leaves that all have a remote_leave_id starts the update sync; an attempt
\* finds its leave as the leave's own earlier attempts left it and fails iff
\* something raised in it; and every leave that is still there ends with the
\* sync_status and message its own last attempt gave it.
C24_EachLeaveItsOwnAttempt ==
    (last.op \in LeaveOps /\ ~last.skip /\ Cardinality(last.ids) > 1) =>
        /\ \A t \in TypesTried, id \in last.ids :
              Cardinality({i \in AttemptsOn(id) : last.attempts[i].sync_type = t}) = 1
        /\ \A i, j \in DOMAIN last.attempts :
              (i < j /\ last.attempts[i].sync_type = last.attempts[j].sync_type) =>
                  last.attempts[i].leave < last.attempts[j].leave
        /\ (/\ last.op = "write"
            /\ DOMAIN last.vals \cap DateFields # {}
            /\ GetActiveConfig(configs) # NoConfig
            /\ \A id \in last.ids : last.pre[id].remote_leave_id # 0) =>
              "update" \in TypesTried
        /\ \A i \in DOMAIN last.attempts :
              LET a == last.attempts[i] IN
              /\ a.before.sync_status = StatusBefore(i)
              /\ a.exc # NoExc <=> a.after.sync_status = "failed"
              /\ (a.connected /\ MissingMapping(a)) =>
                    a.after.sync_error_message.kind \in MappingKinds
        /\ \A id \in last.ids \cap DOMAIN leaves :
              AttemptsOn(id) # {} =>
                  LET a == last.attempts[CHOOSE i \in AttemptsOn(id) :
                                            \A k \in AttemptsOn(id) : k <= i]
                  IN  /\ leaves[id].sync_status = a.after.sync_status
                      /\ leaves[id].sync_error_message = a.after.sync_error_message

\* Only the engine has removed remote records: a remote record that is gone
\* was made for a leave that is gone too.
OnlyEngineRemoved ==
    \A r \in DOMAIN remote :
        ~remote[r].exists => remote[r].made_for \notin DOMAIN leaves

\* C25 as stated: provided only the engine modifies remote records, in every
\* state each local leave with sync_status synced and a remote_leave_id has a
\* remote record under that id with the leave's current date_from, date_to
\* and number_of_days.
C25_SyncedMeansSameDates ==
    OnlyEngineRemoved =>
        \A id \in DOMAIN leaves :
            LET leave == leaves[id] IN
            (leave.sync_status = "synced" /\ leave.remote_leave_id # 0) =>
                /\ RemoteExists(remote, leave.remote_leave_id)
                /\ SameOn(DateFields, remote[leave.remote_leave_id], PushedFor(leave))

=============================================================================
